---------------------------- MODULE Spec2Model ----------------------------
(***************************************************************************)
(* Model of the progressive-download range-request cache,                  *)
(* src/src/lib/videoRequestCache.ts (class VideoRequestCache).              *)
(*                                                                         *)
(* The cache is Map<string, CacheEntry[]> plus the running totalSize and   *)
(* the hit/miss counters.  A JavaScript Map iterates its keys in insertion *)
(* order, which evictOldest relies on to break timestamp ties, so the Map  *)
(* is modelled by the function `cache` together with `keyOrder`, the keys  *)
(* present in the Map in insertion order.                                  *)
(*                                                                         *)
(* storeRange contains the loop `while (totalSize + len > max)             *)
(* evictOldest()`.  Each call of evictOldest inside that loop is one step  *)
(* of the model (pc = "store" while the loop is running), so that a loop   *)
(* that never exits is a behaviour of the model and not a missing          *)
(* transition.  Every other handler is one atomic action.                  *)
(***************************************************************************)
EXTENDS Integers, Sequences, FiniteSets, TLC

\* ------------------------------------------------------------------ bounds
\* Byte offsets of a resource range over 0..MaxPos.
MaxPos == 2
\* The clock (Date.now()) runs over 0..MaxTime.
MaxTime == 1
\* At most MaxLookups calls of findCachedRange are made (caps the counters).
MaxLookups == 1

\* ------------------------------------------------- configuration (scaled)
\* MP4_CACHE_CONFIG.maxCacheSize, scaled from 100 MiB to 2 bytes.
maxCacheSize == 2
\* MP4_CACHE_CONFIG.cacheExpiry, scaled from 30 minutes to 1 clock tick.
cacheExpiry == 1
\* MP4_CACHE_CONFIG.enableRangeCoalescing
enableRangeCoalescing == TRUE
\* MP4_CACHE_CONFIG.maxEntries, scaled from 50 to 1; no method reads it.
maxEntries == 1

\* `end: number | null`: the absent end of an open-ended range.
Null == -1

Min(a, b) == IF a < b THEN a ELSE b
Max(a, b) == IF a > b THEN a ELSE b

\* -------------------------------------------------------------------- URLs
\* A URL string is modelled by: whether `new URL(url)` accepts it, whether it
\* is spelled the way URL.toString() spells it, its part before the query in
\* that spelling (path and extension), and its query parameters in order.
StrippedParams == {"_", "timestamp", "t"}

Param(name, value) == [name |-> name, value |-> value]

UrlString(valid, serialized, path, ext, params) ==
  [valid |-> valid, serialized |-> serialized, path |-> path, ext |-> ext,
   params |-> params]

\* url.includes(ext), for the extensions the filters look for.
Includes(url, ext) == url.ext = ext

\* The URLs of the direct calls: two resources, no query.
Urls ==
  { UrlString(TRUE, TRUE, "https://h/a", ".mp4", <<>>),
    UrlString(TRUE, TRUE, "https://h/b", ".mp4", <<>>) }

\* URLs of one resource that differ in their query: absolute ones, one of
\* them spelled otherwise than its serialization, and relative ones, which
\* `new URL(url)` rejects for want of a base.
QueryUrls ==
  { UrlString(TRUE, TRUE, "https://h/a", ".mp4", <<Param("q", 1), Param("_", 1)>>),
    UrlString(TRUE, TRUE, "https://h/a", ".mp4", <<Param("t", 2), Param("q", 1)>>),
    UrlString(TRUE, FALSE, "https://h/a", ".mp4", <<Param("timestamp", 2)>>),
    UrlString(FALSE, FALSE, "/a", ".mp4", <<Param("t", 1)>>),
    UrlString(FALSE, FALSE, "/a", ".mp4", <<Param("t", 2)>>) }

\* The URLs of the requests that pass through the filters: a progressive
\* MP4, a media segment, and a manifest.
FilterUrls ==
  { UrlString(TRUE, TRUE, "https://h/a", ".mp4", <<>>),
    UrlString(TRUE, TRUE, "https://h/s", ".m4s", <<>>),
    UrlString(TRUE, TRUE, "https://h/m", ".mpd", <<>>) }

\* The empty string, which `new URL(url)` rejects.
EmptyUrl == UrlString(FALSE, FALSE, "", "", <<>>)

AllUrls == Urls \cup QueryUrls \cup FilterUrls \cup {EmptyUrl}

\* A faulty normalization that leaves the parameter `t` in the key.
getCacheKeyKeepsT(url) ==
  IF url.valid
    THEN [url EXCEPT !.serialized = TRUE,
                     !.params = SelectSeq(@, LAMBDA p : p.name \notin {"_", "timestamp"})]
    ELSE url

\* A faulty fallback: the catch block returns the empty string.
getCacheKeyDropsRaw(url) ==
  IF url.valid
    THEN [url EXCEPT !.serialized = TRUE,
                     !.params = SelectSeq(@, LAMBDA p : p.name \notin StrippedParams)]
    ELSE EmptyUrl

\* getCacheKey: parse, delete the cache-busting parameters, reserialize;
\* the raw string when parsing throws.
getCacheKey(url) ==
  IF url.valid
    THEN [url EXCEPT !.serialized = TRUE,
                     !.params = SelectSeq(@, LAMBDA p : p.name \notin StrippedParams)]
    ELSE url

\* The strings that occur as keys of the Map.
Keys == { getCacheKey(u) : u \in AllUrls }

\* ------------------------------------------------------------------- bytes
\* The byte at offset p of a resource as the origin serves it at time t:
\* the resource may change from one tick to the next, so two fetches of the
\* same offset at different times return different bytes.
Content(t, p) == 10 * t + p

\* The body of a response fetched at time t for the inclusive range [rs, re].
Body(t, rs, re) == [i \in 1 .. (re - rs + 1) |-> Content(t, rs + i - 1)]

\* ArrayBuffer.prototype.slice(begin, end): end exclusive, negative indices
\* count from the end, both clamped to the buffer.
Slice(data, begin, end) ==
  LET len == Len(data)
      rel(i) == IF i < 0 THEN Max(len + i, 0) ELSE Min(i, len)
      b == rel(begin)
      e == rel(end)
  IN  IF e <= b THEN <<>> ELSE SubSeq(data, b + 1, e)

byteLength(e) == Len(e.data)

RECURSIVE SumBytes(_)
\* entries.reduce((sum, e) => sum + e.data.byteLength, 0)
SumBytes(entries) ==
  IF entries = <<>> THEN 0
  ELSE byteLength(Head(entries)) + SumBytes(Tail(entries))

\* ------------------------------------------------------------------- state
VARIABLES
  cache,      \* key -> sequence of CacheEntry (<<>> when the key is absent)
  keyOrder,   \* the keys present in the Map, in insertion order
  totalSize,  \* VideoRequestCache.totalSize
  hitCount,   \* VideoRequestCache.hitCount
  missCount,  \* VideoRequestCache.missCount
  now,        \* Date.now()
  pc,         \* "idle", or "store" while storeRange's eviction loop runs
  request,    \* the request object the networking engine has in flight
  preload,    \* the preloadMp4Start calls awaiting their fetch
  last        \* the call made last: its arguments and what it returned

vars ==
  <<cache, keyOrder, totalSize, hitCount, missCount, now, pc, request, preload,
    last>>

\* What the direct calls on the cache leave alone.
inFlight == <<request, preload>>

\* No request in flight.
None == [type |-> Null]

HasKey(order, k) == \E i \in 1 .. Len(order) : order[i] = k

RemoveKey(order, k) == SelectSeq(order, LAMBDA x : x # k)

RemoveAt(s, i) == SubSeq(s, 1, i - 1) \o SubSeq(s, i + 1, Len(s))

Init ==
  /\ cache = [k \in Keys |-> <<>>]
  /\ keyOrder = <<>>
  /\ totalSize = 0
  /\ hitCount = 0
  /\ missCount = 0
  /\ now = 0
  /\ pc = "idle"
  /\ request = None
  /\ preload = {}
  /\ last = [op |-> "none"]

\* ------------------------------------------------------ findCachedRange
Miss == [hit |-> FALSE, bytes |-> <<>>]
Hit(bytes) == [hit |-> TRUE, bytes |-> bytes]

\* A faulty expiry filter: an entry of age exactly cacheExpiry passes.
IsValidInclusive(e, t) == t - e.timestamp <= cacheExpiry

\* The expiry filter: now - e.timestamp < MP4_CACHE_CONFIG.cacheExpiry
IsValid(e, t) == t - e.timestamp < cacheExpiry

ValidEntries(entries, t) == SelectSeq(entries, LAMBDA e : IsValid(e, t))

\* const requestedEnd = end ?? entry.contentLength
RequestedEnd(end, entry) == IF end = Null THEN entry.contentLength ELSE end

\* A faulty containment test: an entry ending exactly at the requested end
\* is not taken to contain the request.
CoversStrictEnd(entry, start, end) ==
  /\ entry.rangeStart <= start
  /\ entry.rangeEnd > RequestedEnd(end, entry)

\* entry.rangeStart <= start && entry.rangeEnd >= requestedEnd
Covers(entry, start, end) ==
  /\ entry.rangeStart <= start
  /\ entry.rangeEnd >= RequestedEnd(end, entry)

\* A faulty slice: offsetEnd taken as exclusive, dropping the last byte.
ExactSliceExclusive(entry, start, end) ==
  Slice(entry.data, start - entry.rangeStart,
        RequestedEnd(end, entry) - entry.rangeStart)

\* entry.data.slice(offsetStart, offsetEnd + 1)
ExactSlice(entry, start, end) ==
  LET offsetStart == start - entry.rangeStart
      offsetEnd == RequestedEnd(end, entry) - entry.rangeStart
  IN  Slice(entry.data, offsetStart, offsetEnd + 1)

\* [...entries].sort((a, b) => a.rangeStart - b.rangeStart), a stable sort.
InsertByStart(sorted, e) ==
  LET k == Cardinality({i \in 1 .. Len(sorted) : sorted[i].rangeStart <= e.rangeStart})
  IN  SubSeq(sorted, 1, k) \o <<e>> \o SubSeq(sorted, k + 1, Len(sorted))

RECURSIVE SortByStart(_)
SortByStart(entries) ==
  IF entries = <<>> THEN <<>>
  ELSE InsertByStart(SortByStart(SubSeq(entries, 1, Len(entries) - 1)),
                     entries[Len(entries)])

RECURSIVE Concat(_)
\* The chunks copied one after the other into a single buffer.
Concat(chunks) ==
  IF chunks = <<>> THEN <<>> ELSE Head(chunks) \o Concat(Tail(chunks))

\* A faulty walk that never reports a gap.
NoGapCheck(entry, currentPos) == FALSE

\* if (entry.rangeStart > currentPos) return null  -- a gap in coverage
GapBefore(entry, currentPos) == entry.rangeStart > currentPos

\* const entryStart = Math.max(0, currentPos - entry.rangeStart)
CoalesceEntryStart(entry, currentPos) == Max(0, currentPos - entry.rangeStart)

\* A faulty entryEnd: the inclusive end taken as exclusive.
CoalesceEntryEndShort(entry, end) ==
  Min(byteLength(entry), end - entry.rangeStart)

\* const entryEnd = Math.min(entry.data.byteLength, end - entry.rangeStart + 1)
CoalesceEntryEnd(entry, end) ==
  Min(byteLength(entry), end - entry.rangeStart + 1)

RECURSIVE CoalesceWalk(_, _, _, _)
\* The loop over the sorted entries; the result is the final currentPos and
\* the chunks collected, or gap = TRUE when the loop returned null.
CoalesceWalk(sorted, currentPos, chunks, end) ==
  IF sorted = <<>>
    THEN [gap |-> FALSE, currentPos |-> currentPos, chunks |-> chunks]
  ELSE
    LET entry == Head(sorted)
        entryStart == CoalesceEntryStart(entry, currentPos)
        entryEnd == CoalesceEntryEnd(entry, end)
        take == entry.rangeEnd >= currentPos /\ entryStart < entryEnd
        pos2 == IF take THEN entry.rangeStart + entryEnd ELSE currentPos
        chunks2 == IF take
                     THEN Append(chunks, Slice(entry.data, entryStart, entryEnd))
                     ELSE chunks
    IN  IF GapBefore(entry, currentPos)
          THEN [gap |-> TRUE, currentPos |-> currentPos, chunks |-> chunks]
        ELSE IF pos2 > end
          THEN [gap |-> FALSE, currentPos |-> pos2, chunks |-> chunks2]
        ELSE CoalesceWalk(Tail(sorted), pos2, chunks2, end)

\* A faulty coalescing that resolves an absent end to the last byte any of
\* the entries holds and walks the entries all the same.
tryCoalesceOpenEnded(entries, start, end) ==
  LET ends == { entries[i].rangeEnd : i \in 1 .. Len(entries) }
      to == IF end # Null THEN end
            ELSE IF ends = {} THEN 0
            ELSE CHOOSE m \in ends : \A x \in ends : x <= m
      w == CoalesceWalk(SortByStart(entries), start, <<>>, to)
  IN  IF to = 0 \/ w.gap \/ w.currentPos <= to THEN Miss ELSE Hit(Concat(w.chunks))

\* tryCoalesceRanges.  `if (!end) return null` rejects null and also 0.
tryCoalesceRanges(entries, start, end) ==
  IF end = Null \/ end = 0 THEN Miss
  ELSE
    LET w == CoalesceWalk(SortByStart(entries), start, <<>>, end)
    IN  IF w.gap \/ w.currentPos <= end THEN Miss ELSE Hit(Concat(w.chunks))

\* The exact-containment scan followed by the coalescing fallback, over the
\* entries that survived the expiry filter.
Lookup(validEntries, start, end) ==
  LET covering == {i \in 1 .. Len(validEntries) : Covers(validEntries[i], start, end)}
  IN  IF covering # {}
        THEN LET first == CHOOSE i \in covering : \A j \in covering : i <= j
             IN  Hit(ExactSlice(validEntries[first], start, end))
      ELSE IF enableRangeCoalescing
        THEN tryCoalesceRanges(validEntries, start, end)
      ELSE Miss

\* A faulty counter that counts every lookup as a hit.
CountEveryLookup(res, count) == count + 1

\* this.hitCount++ on the two paths that return data.
CountHit(res, count) == IF res.hit THEN count + 1 ELSE count

\* A faulty counter that leaves a miss uncounted.
CountNoMiss(res, count) == count

\* this.missCount++ on the two paths that return null.
CountMiss(res, count) == IF res.hit THEN count ELSE count + 1

\* For the record of a lookup: the URL given to the storeRange call that
\* returned just before it and used the same key, the lookup's own URL when
\* there was no such call.
StoredAs(url, key) ==
  IF last.op = "store" /\ last.returned /\ last.key = key THEN last.url ELSE url

FindCachedRange(url, start, end) ==
  /\ pc = "idle"
  /\ hitCount + missCount < MaxLookups
  /\ LET key == getCacheKey(url)
         entries == cache[key]
         validEntries == ValidEntries(entries, now)
         res == IF ~HasKey(keyOrder, key) \/ entries = <<>>
                  THEN Miss
                  ELSE Lookup(validEntries, start, end)
     IN  /\ cache' = IF Len(validEntries) # Len(entries)
                       THEN [cache EXCEPT ![key] = validEntries]
                       ELSE cache
         /\ hitCount' = CountHit(res, hitCount)
         /\ missCount' = CountMiss(res, missCount)
         /\ last' = [op |-> "find", url |-> url, key |-> key,
                     storedAs |-> StoredAs(url, key),
                     start |-> start, end |-> end,
                     hit |-> res.hit, bytes |-> res.bytes,
                     entries |-> entries, at |-> now,
                     hits |-> hitCount, misses |-> missCount]
  /\ UNCHANGED <<keyOrder, totalSize, now, pc>>

\* ------------------------------------------------------------ evictOldest
\* The Map and the running size, as the value evictOldest works on.
State(c, order, total) == [cache |-> c, keyOrder |-> order, totalSize |-> total]

RECURSIVE Slots(_, _)
\* The (key, index) pairs in the order the two nested loops visit them.
Slots(c, order) ==
  IF order = <<>> THEN <<>>
  ELSE [i \in 1 .. Len(c[Head(order)]) |->
          [key |-> Head(order), index |-> i,
           timestamp |-> c[Head(order)][i].timestamp]]
       \o Slots(c, Tail(order))

\* `oldest` while it is still null.
NoSlot == [index |-> 0]

\* A faulty comparison: the scan keeps the newest entry instead.
Newer(t, oldestTimestamp) == t > oldestTimestamp

\* entries[i].timestamp < oldest.timestamp
Older(t, oldestTimestamp) == t < oldestTimestamp

RECURSIVE ScanOldest(_, _)
\* if (!oldest || entries[i].timestamp < oldest.timestamp) oldest = {...}
ScanOldest(slots, oldest) ==
  IF slots = <<>> THEN oldest
  ELSE ScanOldest(Tail(slots),
                  IF oldest.index = 0 \/ Older(Head(slots).timestamp, oldest.timestamp)
                    THEN Head(slots)
                    ELSE oldest)

OldestSlot(S) == ScanOldest(Slots(S.cache, S.keyOrder), NoSlot)

\* The entry evictOldest removes from S, as a sequence of length 0 or 1.
Evicted(S) ==
  LET oldest == OldestSlot(S)
  IN  IF oldest.index = 0 THEN <<>> ELSE <<S.cache[oldest.key][oldest.index]>>

\* A faulty eviction that leaves the key in the Map when its array is empty.
evictOldestKeepsKey(S) ==
  LET oldest == OldestSlot(S)
  IN  IF oldest.index = 0 THEN S
      ELSE
        LET entries == S.cache[oldest.key]
            removed == entries[oldest.index]
        IN  State([S.cache EXCEPT ![oldest.key] = RemoveAt(entries, oldest.index)],
                  S.keyOrder,
                  S.totalSize - byteLength(removed))

evictOldest(S) ==
  LET oldest == OldestSlot(S)
  IN  IF oldest.index = 0 THEN S
      ELSE
        LET entries == S.cache[oldest.key]
            removed == entries[oldest.index]
            rest == RemoveAt(entries, oldest.index)
        IN  State([S.cache EXCEPT ![oldest.key] = rest],
                  IF rest = <<>> THEN RemoveKey(S.keyOrder, oldest.key)
                                 ELSE S.keyOrder,
                  S.totalSize - byteLength(removed))

\* -------------------------------------------------------------- getStats
RECURSIVE CountEntries(_, _)
\* Array.from(this.cache.values()).flat().length
CountEntries(c, order) ==
  IF order = <<>> THEN 0
  ELSE Len(c[Head(order)]) + CountEntries(c, Tail(order))

\* (hitCount / (hitCount + missCount) * 100).toFixed(1), in tenths of a
\* percent, or 'N/A'.
HitRate(hits, misses) ==
  IF hits + misses > 0
    THEN <<((2000 * hits) \div (hits + misses) + 1) \div 2>>
    ELSE <<>>

getStats ==
  [totalSize |-> totalSize,
   totalEntries |-> CountEntries(cache, keyOrder),
   urlsCached |-> Len(keyOrder),
   hitRate |-> HitRate(hitCount, missCount),
   hitCount |-> hitCount,
   missCount |-> missCount]

\* ------------------------------------------------------------- storeRange
\* A faulty loop condition: the size of the incoming data is left out.
NeedsEvictIgnoringData(total, len) == total > maxCacheSize

\* A loop condition that also enforces maxEntries.
NeedsEvictByCount(total, len) ==
  total + len > maxCacheSize \/ CountEntries(cache, keyOrder) >= maxEntries

\* while (this.totalSize + data.byteLength > MP4_CACHE_CONFIG.maxCacheSize)
NeedsEvict(total, len) == total + len > maxCacheSize

\* A faulty filter: an entry sharing a boundary byte with the new range
\* is kept.
KeepsTouching(e, rangeStart, rangeEnd) ==
  e.rangeEnd <= rangeStart \/ e.rangeStart >= rangeEnd

\* A faulty filter that keeps every existing entry.
KeepsAll(e, rangeStart, rangeEnd) == TRUE

\* The filter that keeps an existing entry:
\* e.rangeEnd < rangeStart || e.rangeStart > rangeEnd
Keeps(e, rangeStart, rangeEnd) == e.rangeEnd < rangeStart \/ e.rangeStart > rangeEnd

\* A faulty size update that adds the new entry's size and forgets the
\* entries dropped.
InsertEntryNoSubtract(S, key, entry) ==
  LET existing == S.cache[key]
      filtered == SelectSeq(existing,
                            LAMBDA e : Keeps(e, entry.rangeStart, entry.rangeEnd))
  IN  State([S.cache EXCEPT ![key] = Append(filtered, entry)],
            IF HasKey(S.keyOrder, key) THEN S.keyOrder ELSE Append(S.keyOrder, key),
            S.totalSize + byteLength(entry))

\* storeRange after its eviction loop: drop the overlapping entries of the
\* key, update totalSize, push the new entry.
InsertEntry(S, key, entry) ==
  LET existing == S.cache[key]
      filtered == SelectSeq(existing,
                            LAMBDA e : Keeps(e, entry.rangeStart, entry.rangeEnd))
      removedSize == SumBytes(existing)
      newSize == SumBytes(filtered) + byteLength(entry)
  IN  State([S.cache EXCEPT ![key] = Append(filtered, entry)],
            IF HasKey(S.keyOrder, key) THEN S.keyOrder ELSE Append(S.keyOrder, key),
            S.totalSize - removedSize + newSize)

\* One pass through the head of storeRange's while loop for the call `call`:
\* either one more evictOldest, or the loop exits and the entry is inserted.
StoreStep(call) ==
  LET S == State(cache, keyOrder, totalSize)
      T == IF NeedsEvict(totalSize, Len(call.data))
             THEN evictOldest(S)
             ELSE InsertEntry(S, call.key,
                              [url |-> call.key,
                               rangeStart |-> call.rangeStart,
                               rangeEnd |-> call.rangeEnd,
                               timestamp |-> now,
                               contentLength |-> call.contentLength,
                               data |-> call.data])
  IN  /\ cache' = T.cache
      /\ keyOrder' = T.keyOrder
      /\ totalSize' = T.totalSize
      /\ IF NeedsEvict(totalSize, Len(call.data))
           THEN /\ pc' = "store"
                /\ last' = [call EXCEPT !.evicted = @ \o Evicted(S)]
           ELSE /\ pc' = "idle"
                /\ last' = [call EXCEPT !.returned = TRUE,
                                        !.dropped = Len(cache[call.key]) + 1
                                                    - Len(T.cache[call.key])]
      /\ UNCHANGED <<hitCount, missCount, now>>

\* A call storeRange(url, data, rangeStart, rangeEnd, contentLength), where
\* data is the body of a response for [rangeStart, rangeEnd].
StoreCall(url, rangeStart, rangeEnd, contentLength) ==
  [op |-> "store", url |-> url, key |-> getCacheKey(url),
   rangeStart |-> rangeStart, rangeEnd |-> rangeEnd,
   contentLength |-> contentLength,
   data |-> Body(now, rangeStart, rangeEnd),
   evicted |-> <<>>, dropped |-> 0, returned |-> FALSE]

StoreRange(url, rangeStart, rangeEnd, contentLength) ==
  /\ pc = "idle"
  /\ StoreStep(StoreCall(url, rangeStart, rangeEnd, contentLength))

\* The call in progress goes round its eviction loop once more.
StoreLoop ==
  /\ pc = "store"
  /\ StoreStep(last)
  /\ UNCHANGED inFlight

\* ------------------------------------------------------ clearUrl, clearAll
\* A faulty clearUrl that deletes the key and leaves totalSize as it was.
ClearUrlKeepsSize(url) ==
  /\ pc = "idle"
  /\ LET key == getCacheKey(url)
     IN  /\ IF HasKey(keyOrder, key)
              THEN /\ cache' = [cache EXCEPT ![key] = <<>>]
                   /\ keyOrder' = RemoveKey(keyOrder, key)
              ELSE UNCHANGED <<cache, keyOrder>>
         /\ last' = [op |-> "clearUrl", key |-> key,
                     removed |-> Len(cache[key])]
  /\ UNCHANGED <<totalSize, hitCount, missCount, now, pc, inFlight>>

ClearUrl(url) ==
  /\ pc = "idle"
  /\ LET key == getCacheKey(url)
     IN  /\ IF HasKey(keyOrder, key)
              THEN /\ totalSize' = totalSize - SumBytes(cache[key])
                   /\ cache' = [cache EXCEPT ![key] = <<>>]
                   /\ keyOrder' = RemoveKey(keyOrder, key)
              ELSE UNCHANGED <<cache, keyOrder, totalSize>>
         /\ last' = [op |-> "clearUrl", key |-> key,
                     removed |-> Len(cache[key])]
  /\ UNCHANGED <<hitCount, missCount, now, pc, inFlight>>

ClearAll ==
  /\ pc = "idle"
  /\ cache' = [k \in Keys |-> <<>>]
  /\ keyOrder' = <<>>
  /\ totalSize' = 0
  /\ last' = [op |-> "clearAll"]
  /\ UNCHANGED <<hitCount, missCount, now, pc, inFlight>>

\* The clock advances between calls.
Tick ==
  /\ pc = "idle"
  /\ now < MaxTime
  /\ now' = now + 1
  /\ last' = [op |-> "tick"]
  /\ UNCHANGED <<cache, keyOrder, totalSize, hitCount, missCount, pc, inFlight>>

\* The requests looked up: closed ranges [start, end] with start <= end and
\* open-ended ranges [start, null].
Requests ==
  { r \in (0 .. MaxPos) \X ((0 .. MaxPos) \cup {Null}) : r[2] = Null \/ r[1] <= r[2] }

\* The ranges stored: [rangeStart, rangeEnd] with rangeStart <= rangeEnd.
Ranges == { r \in (0 .. MaxPos) \X (0 .. MaxPos) : r[1] <= r[2] }

\* The contentLength passed with a range ending at rangeEnd: the size of the
\* resource, MaxPos + 1 bytes, or (preloadMp4Start falling back to the byte
\* count it requested when the body is longer) a size not above rangeEnd.
ContentLengths(rangeEnd) == {MaxPos + 1} \cup ({rangeEnd} \ {0})

Next ==
  \/ Tick
  \/ \E url \in Urls, r \in Requests :
       FindCachedRange(url, r[1], r[2]) /\ UNCHANGED inFlight
  \/ \E url \in Urls, r \in Ranges :
       \E n \in ContentLengths(r[2]) :
         StoreRange(url, r[1], r[2], n) /\ UNCHANGED inFlight
  \/ StoreLoop
  \/ \E url \in Urls : ClearUrl(url)
  \/ ClearAll

Spec == Init /\ [][Next]_vars

\* The ranges that start at the first byte of the resource.
PrefixRanges == { r \in Ranges : r[1] = 0 }

\* The cache called with URLs that carry query strings and with URLs that do
\* not parse.
NextKeys ==
  \/ Tick
  \/ \E url \in QueryUrls, r \in Requests :
       FindCachedRange(url, r[1], r[2]) /\ UNCHANGED inFlight
  \/ \E url \in QueryUrls, r \in PrefixRanges :
       \E n \in ContentLengths(r[2]) :
         StoreRange(url, r[1], r[2], n) /\ UNCHANGED inFlight
  \/ StoreLoop

SpecKeys == Init /\ [][NextKeys]_vars

\* ------------------------------------------------- the networking filters
\* shaka's RequestType.SEGMENT, the `1` both filters compare `type` with.
SEGMENT == 1
RequestTypes == {0, SEGMENT}

\* A run of decimal digits as a regular expression group captures it: empty,
\* or the number it spells.
Digits(n) == <<n>>
NoDigits == <<>>
parseInt(digits) == digits[1]

\* A header that is not there.
NoHeader == [unit |-> "none"]

\* The Range header "<unit>=<start>-<end>", <end> possibly empty.
RangeHeader(unit, start, end) == [unit |-> unit, start |-> start, end |-> end]

\* The Content-Range header "<unit> <start>-<end>/<total>", and
\* "<unit> */<total>" with start and end empty.
ContentRangeHeader(unit, start, end, total) ==
  [unit |-> unit, start |-> start, end |-> end, total |-> total]

\* rangeHeader && rangeHeader.match(/bytes=(\d+)-(\d*)/)
MatchRange(h) == h # NoHeader /\ h.unit = "bytes" /\ h.start # NoDigits

\* A faulty parse that takes every range for open-ended.
ParsedEndNull(h) == Null

\* match[2] ? parseInt(match[2], 10) : null
ParsedEnd(h) == IF h.end # NoDigits THEN parseInt(h.end) ELSE Null

\* contentRange && contentRange.match(/bytes (\d+)-(\d+)\/(\d+)/)
MatchContentRange(h) ==
  /\ h # NoHeader
  /\ h.unit = "bytes"
  /\ h.start # NoDigits /\ h.end # NoDigits /\ h.total # NoDigits

\* headers[name], NoHeader standing for undefined.
HeaderOf(headers, name) ==
  IF name \in DOMAIN headers THEN headers[name] ELSE NoHeader

\* response.headers?.['Content-Range'] || response.headers?.['content-range']
ContentRangeOf(response) ==
  IF HeaderOf(response.headers, "Content-Range") # NoHeader
    THEN HeaderOf(response.headers, "Content-Range")
    ELSE HeaderOf(response.headers, "content-range")

\* No response delivered yet for the request in flight.
NoResponse == [delivered |-> FALSE]

\* A request object as the networking engine hands it to the request filter.
NewRequest(type, uri, rangeHeader) ==
  [type |-> type, uri |-> uri, headers |-> [Range |-> rangeHeader],
   cacheHit |-> FALSE, cachedData |-> <<>>, response |-> NoResponse]

\* A faulty check that lets every segment request through, whatever its URL.
TargetedAnyUrl(type, uri) == type = SEGMENT

\* Neither early return taken: type is SEGMENT and the URL includes one of
\* the two extensions.
Targeted(type, uri) ==
  type = SEGMENT /\ (Includes(uri, ".mp4") \/ Includes(uri, ".m4s"))

\* A faulty filter that flags the request whatever the lookup returned.
AnnotateAlways(req, res) ==
  [req EXCEPT !.cacheHit = TRUE, !.cachedData = res.bytes]

\* if (cached) { request.__cacheHit = true; request.__cachedData = cached }
Annotate(req, res) ==
  IF res.hit
    THEN [req EXCEPT !.cacheHit = TRUE, !.cachedData = res.bytes]
    ELSE req

\* The request filter, given a request object the engine is about to send.
RequestFilter(type, uri, rangeHeader) ==
  /\ pc = "idle"
  /\ IF request = None THEN TRUE ELSE request.response # NoResponse
  /\ IF Targeted(type, uri) /\ MatchRange(rangeHeader)
       THEN /\ FindCachedRange(uri, parseInt(rangeHeader.start),
                               ParsedEnd(rangeHeader))
            /\ request' = Annotate(NewRequest(type, uri, rangeHeader),
                                   [hit |-> last'.hit, bytes |-> last'.bytes])
       ELSE /\ request' = NewRequest(type, uri, rangeHeader)
            /\ last' = [op |-> "requestFilter"]
            /\ UNCHANGED <<cache, keyOrder, totalSize, hitCount, missCount,
                           now, pc>>
  /\ UNCHANGED preload

\* A response as the engine hands it to the response filter: its headers,
\* whether response.data is there, the body, and whether the context argument
\* carries the request.
Delivered(headers, hasData, data, context) ==
  [delivered |-> TRUE, headers |-> headers, hasData |-> hasData,
   data |-> data, context |-> context]

\* A faulty check that never sees the flag.
FlaggedNever(req) == FALSE

\* (request as any).__cacheHit
Flagged(req) == req.cacheHit

\* The response filter, given the response to the request in flight.
ResponseFilter(response) ==
  /\ pc = "idle"
  /\ request # None
  /\ request.response = NoResponse
  /\ LET contentRange == ContentRangeOf(response)
     IN  IF /\ Targeted(request.type, request.uri)
            /\ response.context
            /\ ~Flagged(request)
            /\ response.hasData
            /\ MatchContentRange(contentRange)
           THEN StoreRange(request.uri, parseInt(contentRange.start),
                           parseInt(contentRange.end),
                           parseInt(contentRange.total))
           ELSE /\ last' = [op |-> "responseFilter"]
                /\ UNCHANGED <<cache, keyOrder, totalSize, hitCount,
                               missCount, now, pc>>
  /\ request' = [request EXCEPT !.response = response]
  /\ UNCHANGED preload

\* The requests for a range that starts at the first byte.
PrefixRequests == { r \in Requests : r[1] = 0 }

\* The Range headers of the requests: none, one per such request, and one
\* in another unit.
RangeHeaders ==
  {NoHeader, RangeHeader("items", Digits(0), Digits(0))}
  \cup { RangeHeader("bytes", Digits(r[1]),
                     IF r[2] = Null THEN NoDigits ELSE Digits(r[2])) :
           r \in PrefixRequests }

\* A 206 response for the range r received at time t, its Content-Range
\* under the header name `name`.
Partial(name, r, t) ==
  Delivered([n \in {name} |->
               ContentRangeHeader("bytes", Digits(r[1]), Digits(r[2]),
                                  Digits(MaxPos + 1))],
            TRUE, Body(t, r[1], r[2]), TRUE)

\* The responses received at time t: partial ones, a whole body without
\* Content-Range, an unsatisfied range without body, and a partial one
\* handed over with a context that does not carry the request.
Responses(t) ==
  { Partial(name, r, t) :
      name \in {"Content-Range", "content-range"}, r \in PrefixRanges }
  \cup { Delivered([n \in {} |-> NoHeader], TRUE, Body(t, 0, MaxPos), TRUE),
         Delivered([n \in {"Content-Range"} |->
                      ContentRangeHeader("bytes", NoDigits, NoDigits,
                                         Digits(MaxPos + 1))],
                   FALSE, <<>>, TRUE),
         [Partial("Content-Range", <<0, 0>>, t) EXCEPT !.context = FALSE] }

\* The cache used through the two filters only.
NextFilters ==
  \/ Tick
  \/ \E type \in RequestTypes, uri \in FilterUrls, h \in RangeHeaders :
       RequestFilter(type, uri, h)
  \/ \E response \in Responses(now) : ResponseFilter(response)
  \/ StoreLoop

SpecFilters == Init /\ [][NextFilters]_vars

\* The filters given segment requests whose URLs carry query strings.
NextReplay ==
  \/ Tick
  \/ \E uri \in QueryUrls, h \in RangeHeaders : RequestFilter(SEGMENT, uri, h)
  \/ \E response \in Responses(now) : ResponseFilter(response)
  \/ StoreLoop

SpecReplay == Init /\ [][NextReplay]_vars

\* --------------------------------------------------------- preloadMp4Start
\* The number of preloadMp4Start calls that await their fetch at a time; the
\* calls in flight differ in their arguments.
MaxPreloads == 2

\* The URL preloaded: the progressive MP4.
PreloadUrls == { u \in Urls : u.path = "https://h/a" }

\* The byte counts asked for: one byte, and all but the last byte of the
\* resource.
PreloadSizes == {1, MaxPos}

\* preloadMp4Start(url, bytes) up to its `await fetch(...)`.
PreloadStart(url, bytes) ==
  /\ pc = "idle"
  /\ Cardinality(preload) < MaxPreloads
  /\ [url |-> url, bytes |-> bytes] \notin preload
  /\ preload' = preload \cup {[url |-> url, bytes |-> bytes]}
  /\ last' = [op |-> "preloadStart"]
  /\ UNCHANGED <<cache, keyOrder, totalSize, hitCount, missCount, now, pc,
                 request>>

\* What the fetch comes to: the promise rejects, or it resolves to a
\* response with a status, a body that arrayBuffer() reads or fails to read,
\* the body's length, and a Content-Range header.
Rejected == [kind |-> "rejected"]

Response(status, bodyFails, len, contentRange) ==
  [kind |-> "response", status |-> status, bodyFails |-> bodyFails,
   len |-> len, contentRange |-> contentRange]

\* A faulty check that takes every status for a success.
AnyStatus(status) == TRUE

\* response.ok || response.status === 206
OkOrPartial(status) == (200 <= status /\ status <= 299) \/ status = 206

\* Whether the body of the try block throws.
Throws(outcome) ==
  \/ outcome.kind = "rejected"
  \/ OkOrPartial(outcome.status) /\ outcome.bodyFails

\* A faulty catch block that throws the error again.
Rethrown(threw) == IF threw THEN "rejected" ELSE "fulfilled"

\* The promise preloadMp4Start returned, once the try block has thrown or
\* run to its end: the catch block logs and returns.
Settled(threw) == "fulfilled"

\* A faulty derivation that never reads Content-Range.
PreloadContentLengthAsked(bytes, contentRange) == bytes

\* contentLength: bytes, or the digits after the slash of Content-Range.
PreloadContentLength(bytes, contentRange) ==
  IF contentRange # NoHeader /\ contentRange.total # NoDigits
    THEN parseInt(contentRange.total)
    ELSE bytes

\* An empty body is stored as the range [0, -1], which overlaps no range and
\* which no range overlaps: such entries pile up under their key, so the
\* model lets in MaxEmpty of them per key.
MaxEmpty == 1

EmptyEntries(entries) == Len(SelectSeq(entries, LAMBDA e : byteLength(e) = 0))

\* The try block reaches its storeRange call.
Stores(outcome) ==
  /\ outcome.kind = "response"
  /\ OkOrPartial(outcome.status)
  /\ ~outcome.bodyFails

EmptyBodyAllowed(p, outcome) ==
  (Stores(outcome) /\ outcome.len = 0)
    => EmptyEntries(cache[getCacheKey(p.url)]) < MaxEmpty

\* preloadMp4Start from the point where its fetch has come to `outcome`.
PreloadSettle(p, outcome) ==
  /\ pc = "idle"
  /\ p \in preload
  /\ EmptyBodyAllowed(p, outcome)
  /\ preload' = preload \ {p}
  /\ LET via == [preload |-> p, outcome |-> outcome]
     IN  IF Stores(outcome)
           THEN StoreStep(StoreCall(p.url, 0, outcome.len - 1,
                                    PreloadContentLength(p.bytes,
                                                         outcome.contentRange))
                          @@ via)
           ELSE /\ last' = [op |-> "preload",
                            promise |-> Settled(Throws(outcome))] @@ via
                /\ UNCHANGED <<cache, keyOrder, totalSize, hitCount,
                               missCount, now, pc>>
  /\ UNCHANGED request

\* The outcomes of a fetch of `bytes` bytes: a rejection, error statuses, a
\* body that cannot be read, and bodies of up to `bytes` bytes, complete
\* without Content-Range or partial with it, the total known or not.
Outcomes(bytes) ==
  {Rejected,
   Response(404, FALSE, 0, NoHeader),
   Response(206, TRUE, 0, NoHeader)}
  \cup { Response(200, FALSE, len, NoHeader) : len \in 0 .. bytes }
  \cup { Response(206, FALSE, len,
                  ContentRangeHeader("bytes", Digits(0), Digits(len - 1),
                                     total)) :
           len \in 1 .. bytes, total \in {Digits(MaxPos + 1), NoDigits} }

\* The cache filled by preloads only.
NextPreload ==
  \/ Tick
  \/ \E url \in PreloadUrls, bytes \in PreloadSizes : PreloadStart(url, bytes)
  \/ \E p \in preload : \E outcome \in Outcomes(p.bytes) :
       PreloadSettle(p, outcome)
  \/ StoreLoop

SpecPreload == Init /\ [][NextPreload]_vars

\* ================================================================== claims
\* Vocabulary of the claims, stated on the stored entries themselves.
Slot == { s \in Keys \X (1 .. (MaxPos + 2)) : s[2] <= Len(cache[s[1]]) }
EntryAt(s) == cache[s[1]][s[2]]

RECURSIVE SumOverKeys(_)
SumOverKeys(ks) ==
  IF ks = {} THEN 0
  ELSE LET k == CHOOSE x \in ks : TRUE
       IN  SumBytes(cache[k]) + SumOverKeys(ks \ {k})

\* The sum of data.byteLength over all entries stored under all keys.
StoredBytes == SumOverKeys(Keys)

\* An entry is live at time t when its age is below the expiry window.
Live(e, t) == t - e.timestamp < cacheExpiry

\* Byte offset p of the resource lies in the entry's inclusive range.
Holds(e, p) == e.rangeStart <= p /\ p <= e.rangeEnd

\* The entries the last lookup met under its key, and those of them live.
MetByLookup == { last.entries[i] : i \in 1 .. Len(last.entries) }
LiveMet == { e \in MetByLookup : Live(e, last.at) }

ClosedLookup == last.op = "find" /\ last.end # Null
OpenLookup == last.op = "find" /\ last.end = Null

RecordedHit ==
  /\ last.hit
  /\ hitCount = last.hits + 1
  /\ missCount = last.misses

RecordedMiss ==
  /\ ~last.hit
  /\ hitCount = last.hits
  /\ missCount = last.misses + 1

\* C1: between operations totalSize equals the exact sum of data.byteLength
\* over all entries stored under all keys.
C1_TotalSizeExact == pc = "idle" => totalSize = StoredBytes

\* C2: no two entries stored under the same key have overlapping inclusive
\* intervals [rangeStart, rangeEnd].
C2_NonOverlap ==
  \A k \in Keys : \A i, j \in 1 .. Len(cache[k]) :
    i < j => \/ cache[k][i].rangeEnd < cache[k][j].rangeStart
             \/ cache[k][j].rangeEnd < cache[k][i].rangeStart

C2_Witness ==
  /\ last.op = "store" /\ last.returned
  /\ Len(cache[last.key]) >= 2

\* C3: whenever a storeRange call has returned, totalSize is at most
\* maxCacheSize.
C3_WithinCapacity ==
  (last.op = "store" /\ last.returned) => totalSize <= maxCacheSize

C3_Witness ==
  /\ last.op = "store" /\ last.returned
  /\ last.evicted # <<>>
  /\ totalSize = maxCacheSize

\* C4: storeRange always terminates and inserts the new entry: while its
\* eviction loop is running, either an entry is left for evictOldest to
\* remove, or the loop condition is false and the call inserts and returns.
C4_StoreTerminates ==
  pc = "store" => (Slot # {} \/ ~NeedsEvict(totalSize, Len(last.data)))

\* C5: an open-ended lookup [start, null] that meets a live entry with
\* rangeStart <= start <= rangeEnd and rangeEnd = contentLength - 1 is a hit
\* and returns the entry's bytes from start through the resource's last byte.
C5_OpenEndedHit ==
  OpenLookup =>
    \A e \in LiveMet :
      (e.rangeStart <= last.start /\ last.start <= e.rangeEnd
         /\ e.rangeEnd = e.contentLength - 1)
      => /\ RecordedHit
         /\ last.bytes = SubSeq(e.data, last.start - e.rangeStart + 1, Len(e.data))

\* C6: a closed lookup [start, end] fully contained in one live entry of the
\* key records a hit and returns exactly end - start + 1 bytes, the entry's
\* buffer at offsets start - rangeStart through end - rangeStart.
C6_ExactHit ==
  ClosedLookup =>
    \A e \in LiveMet :
      (e.rangeStart <= last.start /\ last.end <= e.rangeEnd)
      => /\ RecordedHit
         /\ Len(last.bytes) = last.end - last.start + 1
         /\ \A j \in 1 .. Len(last.bytes) :
              last.bytes[j] = e.data[last.start - e.rangeStart + j]

C6_Witness ==
  /\ ClosedLookup /\ last.hit
  /\ \E e \in LiveMet :
       /\ e.rangeStart < last.start /\ last.end <= e.rangeEnd
       /\ Len(last.bytes) < Len(e.data)

\* Every byte of the closed request lies in some live entry of the key.
FullyCovered == \A p \in last.start .. last.end : \E e \in LiveMet : Holds(e, p)
\* Some single live entry contains the whole closed request.
SingleContains ==
  \E e \in LiveMet : e.rangeStart <= last.start /\ last.end <= e.rangeEnd

\* C7: when the live entries of the key together cover every byte of a
\* closed request but no single entry contains it, the lookup is a hit and
\* returns end - start + 1 bytes, each the byte the entry covering that
\* offset holds for it, in order.
C7_Coalesce ==
  (ClosedLookup /\ FullyCovered /\ ~SingleContains)
  => /\ RecordedHit
     /\ Len(last.bytes) = last.end - last.start + 1
     /\ \A j \in 1 .. Len(last.bytes) :
          \A e \in LiveMet :
            Holds(e, last.start + j - 1)
            => last.bytes[j] = e.data[last.start + j - 1 - e.rangeStart + 1]

C7_Witness ==
  /\ ClosedLookup /\ FullyCovered /\ ~SingleContains
  /\ last.hit /\ Len(last.bytes) >= 2

\* C8: when some byte of a closed request is covered by no live entry of the
\* key the lookup is a miss, and no closed lookup ever returns fewer than
\* end - start + 1 bytes.
C8_GapIsMiss ==
  ClosedLookup =>
    /\ ~FullyCovered => RecordedMiss
    /\ last.hit => Len(last.bytes) = last.end - last.start + 1

C8_Witness ==
  /\ ClosedLookup /\ ~last.hit
  /\ \E p \in last.start .. last.end : \E e \in LiveMet : Holds(e, p)
  /\ \E p \in last.start .. last.end : \A e \in LiveMet : ~Holds(e, p)

\* The timestamp of the fetch a returned byte comes from (see Content).
FetchedAt(byte) == byte \div 10

\* C9: an entry of age >= cacheExpiry never answers a lookup: a lookup that
\* meets only expired entries is a miss, every byte a lookup returns comes
\* from an entry that is live, after the call no expired entry is left
\* under the key, and a live entry containing the request is still served.
C9_Expiry ==
  last.op = "find" =>
    /\ LiveMet = {} => RecordedMiss
    /\ \A j \in 1 .. Len(last.bytes) : last.at - FetchedAt(last.bytes[j]) < cacheExpiry
    /\ \A i \in 1 .. Len(cache[last.key]) : Live(cache[last.key][i], last.at)
    /\ (last.end # Null /\ SingleContains) => last.hit

C9_Witness ==
  /\ last.op = "find" /\ ~last.hit
  /\ MetByLookup # {} /\ LiveMet = {}
  /\ cache[last.key] = <<>>

\* A step that ends inside storeRange's loop is one call of evictOldest.  On
\* a cache that holds entries it removes exactly one, of minimum timestamp.
\* (A call on a cache without entries removes nothing: see C4.)
EvictionStep ==
  (pc' = "store" /\ Slot # {}) =>
    \E s \in Slot :
      /\ \A x \in Slot : EntryAt(s).timestamp <= EntryAt(x).timestamp
      /\ cache' = [cache EXCEPT ![s[1]] = RemoveAt(@, s[2])]
      /\ totalSize' = totalSize - Len(EntryAt(s).data)
      /\ keyOrder' = IF Len(cache[s[1]]) = 1
                       THEN SelectSeq(keyOrder, LAMBDA k : k # s[1])
                       ELSE keyOrder
      /\ last'.evicted = Append(IF pc = "store" THEN last.evicted ELSE <<>>, EntryAt(s))

\* When the call has returned, nothing in the cache is older than what it
\* evicted.
NoSurvivorOlder ==
  (last'.op = "store" /\ last'.returned) =>
    \A i \in 1 .. Len(last'.evicted) : \A k \in Keys : \A j \in 1 .. Len(cache'[k]) :
      cache'[k][j].timestamp >= last'.evicted[i].timestamp

\* C10: every eviction storeRange performs on a cache that holds entries
\* removes exactly one entry, one of minimum timestamp among all entries of
\* all keys, subtracts its size from totalSize and deletes its key when the
\* key's collection becomes empty; and when the call has returned, no entry
\* in the cache is older than an entry that call evicted.
C10_EvictsOldest == [][EvictionStep /\ NoSurvivorOlder]_vars

C10_Witness ==
  /\ last.op = "store" /\ last.returned
  /\ \E i \in 1 .. Len(last.evicted) : \E s \in Slot :
       EntryAt(s).timestamp > last.evicted[i].timestamp
  /\ \E s \in Slot : EntryAt(s).timestamp < now

\* C17: a storeRange call whose data fits the capacity
\* (data.byteLength <= maxCacheSize) terminates from every reachable state:
\* while its eviction loop is running, an entry is left for evictOldest to
\* remove or the loop condition is false.
C17_FittingStoreTerminates ==
  (pc = "store" /\ Len(last.data) <= maxCacheSize)
  => (Slot # {} \/ ~NeedsEvict(totalSize, Len(last.data)))

\* The step is a lookup under the key of the storeRange call that has just
\* returned, for a closed range inside the range stored.
LookupInsideStored ==
  /\ last.op = "store" /\ last.returned
  /\ last'.op = "find" /\ last'.key = last.key /\ last'.end # Null
  /\ last.rangeStart <= last'.start /\ last'.start <= last'.end
  /\ last'.end <= last.rangeEnd

\* The step is the return of a storeRange call.
StoreReturns == last'.op = "store" /\ last'.returned /\ last' # last

\* C18: a lookup that immediately follows storeRange(url, data, s, e) for a
\* range [s', e'] inside [s, e] is a hit returning data[s'-s .. e'-s]; when
\* storeRange returns, the only entry of the key that overlaps [s, e] is the
\* new one; and every byte a lookup returns is the byte an entry stored under
\* the key at the time of the lookup holds for that offset, so bytes of an
\* entry a store superseded are never returned.
C18_StoreThenLookup ==
  [][ /\ LookupInsideStored =>
           /\ last'.hit
           /\ last'.bytes = SubSeq(last.data, last'.start - last.rangeStart + 1,
                                   last'.end - last.rangeStart + 1)
      /\ StoreReturns =>
           LET entries == cache'[last'.key]
           IN  /\ entries # <<>>
               /\ entries[Len(entries)].data = last'.data
               /\ \A i \in 1 .. Len(entries) - 1 :
                    \/ entries[i].rangeEnd < last'.rangeStart
                    \/ entries[i].rangeStart > last'.rangeEnd
      /\ (last'.op = "find" /\ last'.hit) =>
           \A j \in 1 .. Len(last'.bytes) :
             \E i \in 1 .. Len(cache[last'.key]) :
               LET e == cache[last'.key][i]
                   p == last'.start + j - 1
               IN  /\ Live(e, now)
                   /\ Holds(e, p)
                   /\ last'.bytes[j] = e.data[p - e.rangeStart + 1]
    ]_vars

\* A storeRange call has returned after dropping an entry its range
\* overlapped.
C18_Witness ==
  /\ last.op = "store" /\ last.returned
  /\ last.dropped >= 1

\* Some single live entry reaches from start to the last byte of the
\* resource it belongs to.
SingleCoversOpen ==
  \E e \in LiveMet : e.rangeStart <= last.start /\ e.rangeEnd >= e.contentLength - 1

\* C19: an open-ended lookup is never answered by coalescing: when no single
\* live entry covers it, the lookup is a miss, also when the live entries
\* together cover every byte from start to contentLength - 1.
C19_OpenEndedNeverCoalesced ==
  (OpenLookup /\ ~SingleCoversOpen) => RecordedMiss

C19_Witness ==
  /\ OpenLookup /\ ~SingleCoversOpen /\ ~last.hit
  /\ LiveMet # {}
  /\ \A e \in LiveMet :
       \A p \in last.start .. e.contentLength - 1 : \E f \in LiveMet : Holds(f, p)

\* C20: in every reachable state and for every closed request [start, end]
\* with start <= end, at most one live entry of a key fully contains it.
C20_AtMostOneContains ==
  \A k \in Keys : \A r \in Requests :
    r[2] # Null =>
      Cardinality({ i \in 1 .. Len(cache[k]) :
                      /\ Live(cache[k][i], now)
                      /\ cache[k][i].rangeStart <= r[1]
                      /\ r[2] <= cache[k][i].rangeEnd }) <= 1

C20_Witness ==
  /\ ClosedLookup /\ last.hit
  /\ Cardinality(LiveMet) >= 2
  /\ SingleContains
\* The parameters of a query string that normalization leaves in place.
Unstripped(params) == SelectSeq(params, LAMBDA p : p.name \notin StrippedParams)

\* Two URL strings that differ only in the stripped parameters.
SameButStripped(u, v) ==
  /\ u.valid = v.valid
  /\ u.serialized = v.serialized
  /\ u.path = v.path
  /\ u.ext = v.ext
  /\ Unstripped(u.params) = Unstripped(v.params)

\* This step is a closed lookup inside the range the storeRange call that
\* returned just before it stored.
LookupAfterStore ==
  /\ last.op = "store" /\ last.returned
  /\ last'.op = "find" /\ last'.end # Null
  /\ last.rangeStart <= last'.start
  /\ last'.start <= last'.end
  /\ last'.end <= last.rangeEnd

CalledWithUrl(call) == call.op \in {"find", "store"}

\* C11 as stated: the key of every call is a fixed point of normalization,
\* and a lookup under a URL that differs only in stripped parameters from
\* the URL a range was just stored under uses the same key and hits.
C11_StrippedParamsShareKey ==
  [][ /\ CalledWithUrl(last') => getCacheKey(last'.key) = last'.key
      /\ (LookupAfterStore /\ SameButStripped(last.url, last'.url))
           => (last'.key = last.key /\ last'.hit) ]_vars

\* C11 amended: normalization is idempotent for every URL, and for URLs that
\* `new URL` parses a lookup under a URL that differs only in stripped
\* parameters from the URL a range was just stored under uses the same key
\* and hits.
C11_ParsedUrlsShareKey ==
  [][ /\ CalledWithUrl(last') => getCacheKey(last'.key) = last'.key
      /\ (LookupAfterStore /\ SameButStripped(last.url, last'.url)
            /\ last.url.valid)
           => (last'.key = last.key /\ last'.hit) ]_vars

C11_Witness ==
  /\ last.op = "find" /\ last.hit
  /\ last.url.valid
  /\ last.storedAs # last.url
  /\ SameButStripped(last.storedAs, last.url)
  /\ Unstripped(last.url.params) # <<>>

\* C16: a URL that does not parse is its own key, and a closed lookup with
\* the identical string inside the range a storeRange call just stored under
\* it hits.
C16_RawStringKey ==
  [][ /\ (CalledWithUrl(last') /\ ~last'.url.valid) => last'.key = last'.url
      /\ (LookupAfterStore /\ ~last.url.valid /\ last'.url = last.url)
           => last'.hit ]_vars

C16_Witness ==
  /\ last.op = "find" /\ last.hit
  /\ ~last.url.valid
  /\ last.storedAs = last.url
  /\ last.key = last.url

\* Vocabulary of the filter claims.  A step hands a request object to the
\* request filter, or the response to the request in flight to the response
\* filter.
RequestPassed == request' # request /\ request'.response = NoResponse

ResponsePassed ==
  /\ request # None
  /\ request.response = NoResponse
  /\ request'.response # NoResponse

\* Traffic outside the targeted media patterns.
OutsideTargets(req) == req.type # SEGMENT \/ req.uri.ext \notin {".mp4", ".m4s"}

\* The request carries a Range header "bytes=<start>-<end>?".
HasBytesRange(req) ==
  LET h == req.headers.Range
  IN  h # NoHeader /\ h.unit = "bytes" /\ h.start # <<>>

\* The response carries a Content-Range "bytes <start>-<end>/<total>", under
\* either spelling of the header name, and a body, and comes with its request.
Storable(response) ==
  LET h == ContentRangeOf(response)
  IN  /\ response.context
      /\ response.hasData
      /\ h # NoHeader /\ h.unit = "bytes"
      /\ h.start # <<>> /\ h.end # <<>> /\ h.total # <<>>

CacheUntouched ==
  /\ cache' = cache
  /\ keyOrder' = keyOrder
  /\ totalSize' = totalSize
  /\ hitCount' = hitCount
  /\ missCount' = missCount

\* C12: a filter given traffic outside the targeted patterns leaves the
\* entries, totalSize, hitCount and missCount as they were and the request
\* object without annotation.
C12_FiltersIgnoreOtherTraffic ==
  [][ ((RequestPassed \/ ResponsePassed) /\ OutsideTargets(request'))
        => (CacheUntouched /\ pc' = pc
            /\ ~request'.cacheHit /\ request'.cachedData = <<>>) ]_vars

C12_Witness ==
  /\ request # None
  /\ request.type = SEGMENT
  /\ OutsideTargets(request)
  /\ HasBytesRange(request)
  /\ request.response # NoResponse
  /\ Storable(request.response)

\* C13: the response filter stores nothing for a request flagged as a cache
\* hit; for a targeted request that is not flagged and a response with a
\* `bytes <start>-<end>/<total>` Content-Range and a body, this step begins
\* one storeRange call with that URL, start, end, total and body.
C13_ResponseFilterStores ==
  [][ ResponsePassed =>
        /\ request.cacheHit
             => (CacheUntouched /\ pc' = "idle" /\ last'.op # "store")
        /\ (~OutsideTargets(request) /\ ~request.cacheHit
             /\ Storable(request'.response))
             => LET h == ContentRangeOf(request'.response)
                IN  /\ last'.op = "store"
                    /\ last'.url = request.uri
                    /\ last'.rangeStart = h.start[1]
                    /\ last'.rangeEnd = h.end[1]
                    /\ last'.contentLength = h.total[1]
                    /\ last'.data = request'.response.data
                    /\ last'.returned = (pc' = "idle")
                    /\ Len(cache'[last'.key]) <= Len(cache[last'.key]) + 1 ]_vars

C13_Witness ==
  /\ request # None
  /\ request.cacheHit
  /\ request.response # NoResponse
  /\ Storable(request.response)
  /\ last.op = "responseFilter"

\* C14: for a targeted request with a Range header `bytes=<start>-<end>?`
\* the request filter makes one findCachedRange call with the URL, the parsed
\* start and the parsed end (null when absent), and the request is flagged,
\* with the bytes returned, exactly when that call is a hit.
C14_RequestFilterLooksUp ==
  [][ (RequestPassed /\ ~OutsideTargets(request') /\ HasBytesRange(request'))
        => LET h == request'.headers.Range
           IN  /\ last'.op = "find"
               /\ last'.url = request'.uri
               /\ last'.start = h.start[1]
               /\ last'.end = (IF h.end = <<>> THEN Null ELSE h.end[1])
               /\ hitCount' + missCount' = hitCount + missCount + 1
               /\ request'.cacheHit = last'.hit
               /\ request'.cachedData = (IF last'.hit THEN last'.bytes ELSE <<>>)
    ]_vars

C14_Witness ==
  /\ request # None
  /\ request.response = NoResponse
  /\ request.cacheHit
  /\ last.op = "find" /\ last.hit
  /\ last.bytes # <<>>
  /\ request.cachedData = last.bytes

\* Vocabulary of the preload claim: this step is a preloadMp4Start call
\* resuming from its fetch.
PreloadResumed == preload' # preload /\ preload' \subseteq preload

\* The fetch failed, or reading the body of a successful response failed.
FetchOrParseFailed(outcome) ==
  \/ outcome.kind = "rejected"
  \/ /\ outcome.kind = "response"
     /\ outcome.status \in 200 .. 299
     /\ outcome.bodyFails

\* The response has a status that is neither 2xx nor 206.
ErrorStatus(outcome) ==
  outcome.kind = "response" /\ outcome.status \notin 200 .. 299

\* C15: a preload whose fetch or body read fails returns a promise that is
\* fulfilled and leaves the entries, totalSize and both counters as they
\* were; a preload answered with an error status stores nothing.
C15_PreloadFailureSwallowed ==
  [][ PreloadResumed =>
        /\ FetchOrParseFailed(last'.outcome)
             => (/\ CacheUntouched
                 /\ pc' = "idle"
                 /\ last'.op = "preload"
                 /\ last'.promise = "fulfilled")
        /\ ErrorStatus(last'.outcome)
             => (CacheUntouched /\ pc' = "idle" /\ last'.op = "preload") ]_vars

C15_Witness ==
  /\ last.op = "preload"
  /\ FetchOrParseFailed(last.outcome)
  /\ last.promise = "fulfilled"
  /\ keyOrder # <<>>
  /\ preload # {}

\* C21: a findCachedRange call that returns absent has added one to
\* missCount and nothing to hitCount, and returns no bytes, whatever made it
\* a miss.
C21_MissCounted ==
  (last.op = "find" /\ ~last.hit)
    => (/\ missCount = last.misses + 1
        /\ hitCount = last.hits
        /\ last.bytes = <<>>)

C21_Witness ==
  /\ ClosedLookup
  /\ ~last.hit
  /\ missCount = last.misses + 1
  /\ LiveMet # {}
  /\ \E p \in last.start .. last.end : \E e \in LiveMet : Holds(e, p)
  /\ \E p \in last.start .. last.end : \A e \in LiveMet : ~Holds(e, p)

\* A step that is a findCachedRange call.
LookupStep == last'.op = "find" /\ last' # last

\* C22: no step decreases hitCount or missCount; a findCachedRange call adds
\* one to exactly one of them; every other step of storeRange, its
\* evictions, clearUrl and clearAll leaves both as they were.
C22_CountersMonotonic ==
  [][ /\ hitCount' >= hitCount
      /\ missCount' >= missCount
      /\ LookupStep
           => (/\ hitCount' + missCount' = hitCount + missCount + 1
               /\ hitCount' \in {hitCount, hitCount + 1}
               /\ missCount' \in {missCount, missCount + 1})
      /\ last'.op \in {"store", "clearUrl", "clearAll"}
           => (hitCount' = hitCount /\ missCount' = missCount) ]_vars

C22_Witness ==
  /\ hitCount = 1
  /\ missCount = 0
  /\ last.op = "clearAll"

\* The entry's interval and [s, t] have a byte in common.
Overlaps(e, s, t) == e.rangeStart <= t /\ s <= e.rangeEnd

\* This step is a storeRange call entered with room for its data.
FittingStore ==
  /\ pc = "idle"
  /\ last'.op = "store"
  /\ totalSize + Len(last'.data) <= maxCacheSize

\* C23: a storeRange call entered with totalSize + data.byteLength within
\* the capacity returns in one step, keeps the entries of its key that do not
\* overlap the new range, in order and unchanged, drops the others, appends
\* the new entry, changes totalSize by the new size minus the dropped sizes,
\* and leaves the entries of every other key as they were.
C23_StoreFrame ==
  [][ FittingStore =>
        LET K == last'.key
            kept == SelectSeq(cache[K],
                      LAMBDA e : ~Overlaps(e, last'.rangeStart, last'.rangeEnd))
            gone == SelectSeq(cache[K],
                      LAMBDA e : Overlaps(e, last'.rangeStart, last'.rangeEnd))
            new == cache'[K][Len(cache'[K])]
        IN  /\ last'.returned /\ pc' = "idle"
            /\ Len(cache'[K]) = Len(kept) + 1
            /\ SubSeq(cache'[K], 1, Len(kept)) = kept
            /\ new.rangeStart = last'.rangeStart
            /\ new.rangeEnd = last'.rangeEnd
            /\ new.data = last'.data
            /\ new.contentLength = last'.contentLength
            /\ new.timestamp = now
            /\ totalSize' = totalSize + Len(last'.data) - SumBytes(gone)
            /\ \A k \in Keys \ {K} : cache'[k] = cache[k] ]_vars

C23_Witness ==
  /\ last.op = "store"
  /\ last.returned
  /\ last.evicted = <<>>
  /\ last.dropped >= 1
  /\ totalSize = StoredBytes

\* The entries the last storeRange call evicted.
EvictedByLast == { last.evicted[i] : i \in 1 .. Len(last.evicted) }

\* C24: eviction reaches across keys.  A storeRange step that leaves a key
\* without entries also takes that key out of the Map, whichever key the
\* call stores to; the witness is a storeRange call on one key that has
\* evicted a live entry of another key and left that key out of the Map.
C24_EvictionIsGlobal ==
  [][ last'.op = "store"
        => \A k \in Keys :
             (cache[k] # <<>> /\ cache'[k] = <<>>) => ~HasKey(keyOrder', k) ]_vars

C24_Witness ==
  /\ last.op = "store"
  /\ last.returned
  /\ \E e \in EvictedByLast :
       /\ e.url # last.key
       /\ Live(e, now)
       /\ cache[e.url] = <<>>
       /\ ~HasKey(keyOrder, e.url)
  /\ \A k \in Keys \ {last.key} : cache[k] = <<>>

\* The entries of key k that start at byte 0.
StartingAtZero(k) == { i \in 1 .. Len(cache[k]) : cache[k][i].rangeStart = 0 }

\* C25: in every state between operations, with preloads in flight or
\* resumed in any order, the entries of a key are pairwise disjoint,
\* totalSize is within the capacity, and a key holds at most one entry that
\* starts at byte 0.
C25_PreloadsInterleaved ==
  pc = "idle"
    => /\ \A k \in Keys : \A i, j \in 1 .. Len(cache[k]) :
            i # j => ~Overlaps(cache[k][i], cache[k][j].rangeStart,
                               cache[k][j].rangeEnd)
       /\ totalSize <= maxCacheSize
       /\ \A k \in Keys : Cardinality(StartingAtZero(k)) <= 1

\* The fetch resolved to a 2xx response whose body was read.
Succeeded(outcome) ==
  /\ outcome.kind = "response"
  /\ outcome.status \in 200 .. 299
  /\ ~outcome.bodyFails

\* The response carries a Content-Range with a total.
HasTotal(outcome) ==
  outcome.contentRange # NoHeader /\ outcome.contentRange.total # <<>>

\* C26: a preload resuming from a successful fetch begins one storeRange
\* call, for the URL it was given and that URL's key, with rangeStart 0,
\* rangeEnd the body length minus 1, the body as data, and contentLength the
\* total of Content-Range when the response has one, the byte count asked for
\* otherwise.
C26_PreloadStores ==
  [][ (PreloadResumed /\ Succeeded(last'.outcome)) =>
        /\ last'.op = "store"
        /\ last'.evicted = <<>> \/ pc' = "store"
        /\ last'.returned = (pc' = "idle")
        /\ last'.url = last'.preload.url
        /\ last'.key \in Keys
        /\ last'.key.params = Unstripped(last'.url.params)
        /\ last'.rangeStart = 0
        /\ last'.rangeEnd = last'.outcome.len - 1
        /\ Len(last'.data) = last'.outcome.len
        /\ last'.contentLength =
             (IF HasTotal(last'.outcome)
                THEN last'.outcome.contentRange.total[1]
                ELSE last'.preload.bytes) ]_vars

C26_Witness ==
  /\ last.op = "store"
  /\ last.returned
  /\ Succeeded(last.outcome)
  /\ HasTotal(last.outcome)
  /\ last.contentLength # last.preload.bytes
  /\ last.rangeEnd = last.outcome.len - 1
  /\ last.rangeEnd >= 0

\* The storeRange call that returned last was made by the response filter
\* for the request in flight, and this step hands the request filter a
\* request with a closed Range header inside the range stored.
ReplayAfterStore ==
  /\ last.op = "store" /\ last.returned
  /\ request # None
  /\ request.response # NoResponse
  /\ Storable(request.response)
  /\ request.uri = last.url
  /\ RequestPassed
  /\ HasBytesRange(request')
  /\ request'.headers.Range.end # <<>>
  /\ last.rangeStart <= request'.headers.Range.start[1]
  /\ request'.headers.Range.start[1] <= request'.headers.Range.end[1]
  /\ request'.headers.Range.end[1] <= last.rangeEnd

\* The bytes of the stored range that the request asks for.
Replayed ==
  SubSeq(last.data,
         request'.headers.Range.start[1] - last.rangeStart + 1,
         request'.headers.Range.end[1] - last.rangeStart + 1)

\* A response handed over for a flagged request leaves the Map as it was.
FlaggedResponseIgnored ==
  (ResponsePassed /\ request.cacheHit)
    => (cache' = cache /\ keyOrder' = keyOrder /\ totalSize' = totalSize)

\* C27 as stated: a request filter call that follows the response filter's
\* store of [s, e], for a URL that differs from the stored one in stripped
\* parameters at most and with a Range header inside [s, e], flags the
\* request and attaches the bytes asked for; the response of a flagged
\* request leaves the entries unchanged.
C27_ReplayHits ==
  [][ /\ (ReplayAfterStore /\ SameButStripped(last.url, request'.uri))
           => (request'.cacheHit /\ request'.cachedData = Replayed)
      /\ FlaggedResponseIgnored ]_vars

\* C27 amended: the same for URLs that `new URL` parses, and for every URL
\* when the request's URL is the very string the range was stored under.
C27_ReplayHitsParsed ==
  [][ /\ (ReplayAfterStore /\ SameButStripped(last.url, request'.uri)
            /\ (last.url.valid \/ request'.uri = last.url))
           => (request'.cacheHit /\ request'.cachedData = Replayed)
      /\ FlaggedResponseIgnored ]_vars

C27_Witness ==
  /\ request # None
  /\ request.cacheHit
  /\ request.response = NoResponse
  /\ request.uri.valid
  /\ last.op = "find"
  /\ last.storedAs # request.uri
  /\ SameButStripped(last.storedAs, request.uri)
  /\ request.cachedData = last.bytes
  /\ last.bytes # <<>>

\* The keys that hold at least one entry.
KeysWithData == { k \in Keys : cache[k] # <<>> }

\* C28: every key present in the Map has a non-empty entry array, and
\* getStats reports as urlsCached the number of keys that hold data.
C28_NoEmptyKey ==
  /\ \A i \in 1 .. Len(keyOrder) : cache[keyOrder[i]] # <<>>
  /\ getStats.urlsCached = Cardinality(KeysWithData)

\* This step of a storeRange call evicts an entry.
EvictsNow ==
  /\ last'.op = "store"
  /\ Len(last'.evicted) > (IF pc = "store" THEN Len(last.evicted) ELSE 0)

\* C29: an eviction happens only when totalSize plus the size of the data
\* exceeds maxCacheSize, however many entries are stored; the witness holds
\* more than maxEntries entries, within the capacity, after a storeRange call
\* that evicted nothing.
C29_MaxEntriesUnenforced ==
  [][ EvictsNow => totalSize + Len(last'.data) > maxCacheSize ]_vars

C29_Witness ==
  /\ last.op = "store"
  /\ last.returned
  /\ last.evicted = <<>>
  /\ getStats.totalEntries > maxEntries
  /\ totalSize <= maxCacheSize
  /\ \A k \in Keys : \A i, j \in 1 .. Len(cache[k]) :
       i < j => cache[k][i].rangeEnd < cache[k][j].rangeStart

CountersKept == hitCount' = hitCount /\ missCount' = missCount

\* This step is a lookup of a key that the call just before cleared.
LookupOfCleared ==
  /\ last.op \in {"clearUrl", "clearAll"}
  /\ last'.op = "find"
  /\ last.op = "clearUrl" => last'.key = last.key

\* C30: clearUrl leaves its key without entries and out of the Map, lowers
\* totalSize by the sizes of the entries removed, and leaves every other key
\* and both counters as they were; clearAll leaves no entry and no key, sets
\* totalSize to 0 and leaves both counters as they were; a lookup of a key
\* just cleared is a miss.
C30_ClearFrame ==
  [][ /\ last'.op = "clearUrl"
           => LET K == last'.key
              IN  /\ cache'[K] = <<>>
                  /\ ~HasKey(keyOrder', K)
                  /\ totalSize' = totalSize - SumBytes(cache[K])
                  /\ \A k \in Keys \ {K} :
                       /\ cache'[k] = cache[k]
                       /\ HasKey(keyOrder', k) = HasKey(keyOrder, k)
                  /\ CountersKept
      /\ last'.op = "clearAll"
           => (/\ \A k \in Keys : cache'[k] = <<>>
               /\ keyOrder' = <<>>
               /\ totalSize' = 0
               /\ CountersKept)
      /\ LookupOfCleared
           => (~last'.hit /\ missCount' = missCount + 1) ]_vars

C30_Witness ==
  /\ last.op = "clearUrl"
  /\ last.removed >= 1
  /\ cache[last.key] = <<>>
  /\ \E k \in Keys \ {last.key} : cache[k] # <<>> /\ HasKey(keyOrder, k)
  /\ totalSize = StoredBytes

=============================================================================
